---- MODULE Spec2Model ----
(***************************************************************************)
(* Model of examples/di/01_polyglot_di_pattern.rs: the composition root    *)
(* (main) builds Database, HTTPClient, Logger, UserRepository,             *)
(* NotificationService and UserService in that order and runs the single   *)
(* use case UserService::get_user.                                         *)
(*                                                                         *)
(* The program is single-threaded; pc is the position of the one thread,   *)
(* one value per statement that prints, calls a collaborator or returns.   *)
(* Standard output is the sequence out.                                    *)
(*                                                                         *)
(* What Database::query and HTTPClient::post answer is held in dbAnswer    *)
(* and httpAnswer, fixed at Init.  The bodies in the source are the case   *)
(* dbAnswer = MockRows, httpAnswer = MockResponse; the other values are    *)
(* the answers of a substituted backing store / HTTP endpoint, over which  *)
(* the contracts of find_by_id, notify_user_created and get_user are       *)
(* stated.  driver = "main" is main() as written (get_user(1), once);      *)
(* driver = "harness" performs the same construction and then calls        *)
(* get_user up to MaxCalls times with arbitrary ids.                       *)
(***************************************************************************)
EXTENDS Integers, Sequences, FiniteSets, TLC

VARIABLES
    pc,             \* position of the thread
    driver,         \* "main" | "harness"
    dbAnswer,       \* what Database::query returns
    httpAnswer,     \* what HTTPClient::post returns
    database,       \* main's local `database`
    http_client,    \* main's local `http_client`
    logger,         \* main's local `logger`
    repository,     \* main's local `repository`
    notifications,  \* main's local `notifications`
    user_service,   \* main's local `user_service`
    user_id,        \* argument of get_user / find_by_id
    rows,           \* find_by_id's local `rows`
    found,          \* value returned by find_by_id (Option<User>)
    data,           \* notify_user_created's local `data`
    response,       \* notify_user_created's local `response`
    notified,       \* value returned by notify_user_created
    result,         \* value returned by get_user (Option<User>)
    calls,          \* number of get_user calls started
    out             \* standard output, one entry per println!

objects == <<database, http_client, logger, repository, notifications, user_service>>
frame   == <<user_id, rows, found, data, response, notified, result>>
env     == <<driver, dbAnswer, httpAnswer>>
vars    == <<pc, env, objects, frame, calls, out>>

----------------------------------------------------------------------------
(* Bounds *)

MaxCalls == 2

----------------------------------------------------------------------------
(* Option<T>, strings as character sequences, i32 *)

None    == [tag |-> "None"]
Some(v) == [tag |-> "Some", val |-> v]
Unset   == [tag |-> "Unset"]

I32Max == 2147483647
I32Min == -I32Max - 1

Digits == <<"0", "1", "2", "3", "4", "5", "6", "7", "8", "9">>

IsDigit(c) == \E i \in 1..10 : Digits[i] = c

DigitValue(c) == (CHOOSE i \in 1..10 : Digits[i] = c) - 1

\* i32::from_str's accumulation for a non-negative literal: checked_mul(10)
\* then checked_add(digit); None is Err(PosOverflow | InvalidDigit).
RECURSIVE ParsePos(_, _)
ParsePos(s, acc) ==
    IF s = <<>> THEN Some(acc)
    ELSE IF ~IsDigit(Head(s)) THEN None
    ELSE LET d == DigitValue(Head(s)) IN
         IF acc > (I32Max - d) \div 10 THEN None
         ELSE ParsePos(Tail(s), acc * 10 + d)

\* For a literal with a leading "-": checked_mul(10) then checked_sub(digit).
RECURSIVE ParseNeg(_, _)
ParseNeg(s, acc) ==
    IF s = <<>> THEN Some(acc)
    ELSE IF ~IsDigit(Head(s)) THEN None
    ELSE LET d == DigitValue(Head(s)) IN
         IF acc < (I32Min + d + 9) \div 10 THEN None
         ELSE ParseNeg(Tail(s), acc * 10 - d)

\* str::parse::<i32>(): empty -> Err(Empty); a lone sign -> Err(InvalidDigit);
\* one optional leading "+" or "-", then decimal digits only.
ParseI32(s) ==
    IF s = <<>> THEN None
    ELSE IF Head(s) = "-" THEN (IF Tail(s) = <<>> THEN None ELSE ParseNeg(Tail(s), 0))
    ELSE IF Head(s) = "+" THEN (IF Tail(s) = <<>> THEN None ELSE ParsePos(Tail(s), 0))
    ELSE ParsePos(s, 0)

RECURSIVE UDigits(_)
UDigits(n) ==
    IF n < 10 THEN <<Digits[n + 1]>>
    ELSE UDigits(n \div 10) \o <<Digits[(n % 10) + 1]>>

\* The decimal digits of m + 1, for 0 <= m <= I32Max (the magnitude of a
\* negative i32 n is -(n + 1) + 1, which for i32::MIN exceeds I32Max).
RECURSIVE UDigitsSucc(_)
UDigitsSucc(m) ==
    IF m % 10 = 9
    THEN UDigitsSucc(m \div 10) \o <<"0">>
    ELSE (IF m \div 10 = 0 THEN <<>> ELSE UDigits(m \div 10)) \o <<Digits[(m % 10) + 2]>>

\* i32::to_string(): minus sign for negatives, no leading zeros, no "+".
I32ToString(n) ==
    IF n >= 0 THEN UDigits(n) ELSE <<"-">> \o UDigitsSucc(-(n + 1))

----------------------------------------------------------------------------
(* HashMap<String, String> is a function from its keys; get is Option. *)

NoFields == <<>>

Get(m, k) == IF k \in DOMAIN m THEN Some(m[k]) ELSE None

\* Database::query's literal row and HTTPClient::post's literal response.
MockRow == [id |-> <<"1">>, name |-> "Alice", email |-> "alice@example.com"]

MockRows == <<MockRow>>

MockResponse == [status |-> "success", message |-> "User created"]

\* Rows a substituted backing store may answer with.
BobRow == [id |-> <<"4", "2">>, name |-> "Bob", email |-> "bob@example.com"]

IdRow(s) == [id |-> s, name |-> "Carol", email |-> "carol@example.com"]

IdStrings ==
    { <<"+", "5">>, <<"-", "7">>, <<"0", "0", "7">>, <<"-", "0">>,
      <<"2", "1", "4", "7", "4", "8", "3", "6", "4", "7">>,
      <<"-", "2", "1", "4", "7", "4", "8", "3", "6", "4", "8">>,
      <<>>, <<"-">>, <<"+">>, <<"a", "b", "c">>, <<"1", "a">>, <<" ", "1">>,
      <<"1", ".", "0">>, <<"+", "-", "1">>,
      <<"2", "1", "4", "7", "4", "8", "3", "6", "4", "8">>,
      <<"-", "2", "1", "4", "7", "4", "8", "3", "6", "4", "9">>,
      <<"9", "9", "9", "9", "9", "9", "9", "9", "9", "9", "9">> }

Rows ==
    { IdRow(s) : s \in IdStrings }
    \cup { MockRow, BobRow,
           [id |-> <<"8">>, name |-> "", email |-> "", role |-> "admin"],
           [name |-> "Dan", email |-> "dan@example.com"],
           [id |-> <<"3">>, email |-> "dan@example.com"],
           [id |-> <<"3">>, name |-> "Dan"],
           [id |-> <<"x">>],
           NoFields }

DbAnswers ==
    { <<>> }
    \cup { <<r>> : r \in Rows }
    \cup { <<BobRow, MockRow>>, <<MockRow, NoFields>>, <<NoFields, MockRow>> }

HttpAnswers ==
    { MockResponse,
      [status |-> "success"],
      [status |-> "error", message |-> "boom"],
      [status |-> "Success"],
      [status |-> ""],
      [message |-> "success"],
      NoFields }

UserIds == { I32Min, 0, 1, 42 }

----------------------------------------------------------------------------
(* Output lines: the format string and its arguments. *)

Line(fmt, args) == [fmt |-> fmt, args |-> args]

\* Logger::info
Info(fmt, args) == Line("[INFO] " \o fmt, args)

\* println! outside Logger
Println(fmt, args) == Line(fmt, args)

----------------------------------------------------------------------------
(* main: the order of its statements up to the get_user call. *)

\* An order that constructs the repository before the leaves.
MainOrder_repository_first ==
    << "p186", "p191", "new_repository", "new_database", "new_http_client",
       "new_logger", "p197", "new_notifications",
       "p202", "new_user_service", "p206", "call" >>

MainOrder ==
    << "p186", "p191", "new_database", "new_http_client", "new_logger",
       "p197", "new_repository", "new_notifications",
       "p202", "new_user_service", "p206", "call" >>

After(l) == MainOrder[(CHOOSE i \in 1..Len(MainOrder) : MainOrder[i] = l) + 1]

\* The println! statements of main that stand between the constructions.
Banner ==
    [ p186 |-> << Println("======================================================================", <<>>),
                  Println("Rust Dependency Injection Example", <<>>),
                  Println("======================================================================", <<>>) >>,
      p191 |-> << Println("\n[Composition Root] Creating infrastructure dependencies...", <<>>) >>,
      p197 |-> << Println("\n[Composition Root] Creating application services...", <<>>) >>,
      p202 |-> << Println("\n[Composition Root] Creating UserService...", <<>>) >>,
      p206 |-> << Println("\n======================================================================", <<>>),
                  Println("Running Application", <<>>),
                  Println("======================================================================\n", <<>>) >> ]

Init ==
    /\ pc = MainOrder[1]
    /\ driver \in {"main", "harness"}
    /\ dbAnswer \in DbAnswers
    /\ httpAnswer \in HttpAnswers
    /\ database = Unset
    /\ http_client = Unset
    /\ logger = Unset
    /\ repository = Unset
    /\ notifications = Unset
    /\ user_service = Unset
    /\ user_id = 0
    /\ rows = <<>>
    /\ found = None
    /\ data = NoFields
    /\ response = NoFields
    /\ notified = FALSE
    /\ result = None
    /\ calls = 0
    /\ out = <<>>

MainPrintln ==
    /\ pc \in DOMAIN Banner
    /\ out' = out \o Banner[pc]
    /\ pc' = After(pc)
    /\ UNCHANGED <<env, objects, frame, calls>>

\* Database::new("postgresql://localhost/myapp")
Database_new ==
    /\ pc = "new_database"
    /\ out' = Append(out, Println("[Database] Connected to {}", <<"postgresql://localhost/myapp">>))
    /\ database' = [connection_string |-> "postgresql://localhost/myapp"]
    /\ pc' = After(pc)
    /\ UNCHANGED <<env, http_client, logger, repository, notifications, user_service, frame, calls>>

\* HTTPClient::new("https://api.example.com", 30)
HTTPClient_new ==
    /\ pc = "new_http_client"
    /\ out' = Append(out, Println("[HTTPClient] Configured for {} (timeout: {}s)",
                                  <<"https://api.example.com", 30>>))
    /\ http_client' = [base_url |-> "https://api.example.com", timeout |-> 30]
    /\ pc' = After(pc)
    /\ UNCHANGED <<env, database, logger, repository, notifications, user_service, frame, calls>>

\* Logger::new("INFO")
Logger_new ==
    /\ pc = "new_logger"
    /\ out' = Append(out, Println("[Logger] Initialized with level {}", <<"INFO">>))
    /\ logger' = [level |-> "INFO"]
    /\ pc' = After(pc)
    /\ UNCHANGED <<env, database, http_client, repository, notifications, user_service, frame, calls>>

\* UserRepository::new(&database, &logger)
UserRepository_new ==
    /\ pc = "new_repository"
    /\ out' = Append(out, Info("UserRepository initialized", <<>>))
    /\ repository' = [db |-> "database", logger |-> "logger"]
    /\ pc' = After(pc)
    /\ UNCHANGED <<env, database, http_client, logger, notifications, user_service, frame, calls>>

\* NotificationService::new(&http_client, &logger)
NotificationService_new ==
    /\ pc = "new_notifications"
    /\ out' = Append(out, Info("NotificationService initialized", <<>>))
    /\ notifications' = [http_client |-> "http_client", logger |-> "logger"]
    /\ pc' = After(pc)
    /\ UNCHANGED <<env, database, http_client, logger, repository, user_service, frame, calls>>

\* UserService::new(&repository, &notifications, &logger)
UserService_new ==
    /\ pc = "new_user_service"
    /\ out' = Append(out, Info("UserService initialized", <<>>))
    /\ user_service' = [repository |-> "repository", notifications |-> "notifications",
                        logger |-> "logger"]
    /\ pc' = After(pc)
    /\ UNCHANGED <<env, database, http_client, logger, repository, notifications, frame, calls>>

----------------------------------------------------------------------------
(* The use case. *)

Panic == [tag |-> "Panic"]

\* A query whose answer depends on the statement: only id 1 has a row.
Database_query_by_sql(sql) == IF sql[2] = 1 THEN dbAnswer ELSE <<>>

\* Database::query(&self, sql): the answer does not depend on sql.
Database_query(sql) == dbAnswer

\* HTTPClient::post(&self, path, data): the answer does not depend on path or data.
HTTPClient_post(path, payload) == httpAnswer

\* The struct literal of find_by_id (lines 116-120) for the first row: the
\* fields are evaluated in the order id, name, email and each unwrap() of an
\* absent field or of a failed parse panics.
row_to_user(row) ==
    LET id    == Get(row, "id")
        name  == Get(row, "name")
        email == Get(row, "email")
    IN  IF id.tag = "None" THEN Panic
        ELSE IF ParseI32(id.val).tag = "None" THEN Panic
        ELSE IF name.tag = "None" THEN Panic
        ELSE IF email.tag = "None" THEN Panic
        ELSE Some([id |-> ParseI32(id.val).val, name |-> name.val, email |-> email.val])

\* A find_by_id that fills the id from the requested user_id.
find_by_id_value_requested_id(rs) ==
    IF Len(rs) = 0 THEN None
    ELSE LET u == row_to_user(rs[1]) IN
         IF u.tag = "Some" THEN Some([u.val EXCEPT !.id = user_id]) ELSE u

\* A find_by_id without the is_empty() test: rows[0] panics on no rows.
find_by_id_value_unchecked(rs) ==
    IF Len(rs) = 0 THEN Panic ELSE row_to_user(rs[1])

\* A find_by_id with unwrap_or_default() in place of unwrap().
find_by_id_value_defaulted(rs) ==
    IF Len(rs) = 0 THEN None
    ELSE LET row   == rs[1]
             id    == Get(row, "id")
             name  == Get(row, "name")
             email == Get(row, "email")
             n     == IF id.tag = "None" THEN None ELSE ParseI32(id.val)
         IN  Some([id    |-> IF n.tag = "None" THEN 0 ELSE n.val,
                   name  |-> IF name.tag = "None" THEN "" ELSE name.val,
                   email |-> IF email.tag = "None" THEN "" ELSE email.val])

\* UserRepository::find_by_id after the query (lines 112-121): the value
\* returned for `rs`, or Panic.
find_by_id_value(rs) ==
    IF Len(rs) = 0 THEN None ELSE row_to_user(rs[1])

\* A payload that carries the requested id instead of the found user's.
notify_data_requested_id(user) ==
    [user_id |-> I32ToString(user_id), event |-> "user.created"]

\* NotificationService::notify_user_created: the payload built for `user`.
notify_data(user) == [user_id |-> I32ToString(user.id), event |-> "user.created"]

\* A result that is true for any response that has a status field.
notify_value_any_status(resp) == Get(resp, "status").tag = "Some"

\* response.get("status").map(|s| s == "success").unwrap_or(false)
notify_value(resp) ==
    LET s == Get(resp, "status") IN
    IF s.tag = "Some" THEN s.val = "success" ELSE FALSE

\* main line 210, get_user(1); the harness calls with any id.
Call ==
    /\ pc = "call"
    /\ \E uid \in (IF driver = "main" THEN {1} ELSE UserIds) : user_id' = uid
    /\ calls' = calls + 1
    /\ rows' = <<>>
    /\ found' = None
    /\ data' = NoFields
    /\ response' = NoFields
    /\ notified' = FALSE
    /\ result' = None
    /\ pc' = "gu_167"
    /\ UNCHANGED <<env, objects, out>>

\* get_user line 167
get_user_log ==
    /\ pc = "gu_167"
    /\ out' = Append(out, Info("Getting user {}", <<user_id>>))
    /\ pc' = "fb_110"
    /\ UNCHANGED <<env, objects, frame, calls>>

\* find_by_id line 110
find_by_id_log ==
    /\ pc = "fb_110"
    /\ out' = Append(out, Info("Finding user {}", <<user_id>>))
    /\ pc' = "fb_111"
    /\ UNCHANGED <<env, objects, frame, calls>>

\* find_by_id line 111 with Database::query lines 41-49
find_by_id_query ==
    /\ pc = "fb_111"
    /\ LET sql == <<"SELECT * FROM users WHERE id = {}", user_id>> IN
       /\ out' = Append(out, Println("[Database] Executing: {}", <<sql>>))
       /\ rows' = Database_query(sql)
    /\ pc' = "fb_112"
    /\ UNCHANGED <<env, objects, user_id, found, data, response, notified, result, calls>>

\* find_by_id lines 112-121, returning to get_user line 168
find_by_id_return ==
    /\ pc = "fb_112"
    /\ find_by_id_value(rows).tag # "Panic"
    /\ found' = find_by_id_value(rows)
    /\ pc' = "gu_168"
    /\ UNCHANGED <<env, objects, user_id, rows, data, response, notified, result, calls, out>>

\* find_by_id lines 117-119: an unwrap() panics; the thread unwinds through
\* get_user and main and the process ends.
find_by_id_panic ==
    /\ pc = "fb_112"
    /\ find_by_id_value(rows).tag = "Panic"
    /\ pc' = "panicked"
    /\ UNCHANGED <<env, objects, frame, calls, out>>

\* get_user lines 168-169: Some(user)
get_user_found ==
    /\ pc = "gu_168"
    /\ found.tag = "Some"
    /\ out' = Append(out, Info("Found user: {}", <<found.val.name>>))
    /\ pc' = "nu_136"
    /\ UNCHANGED <<env, objects, frame, calls>>

\* A get_user that logs the miss with Logger::error.
get_user_absent_logged ==
    /\ pc = "gu_168"
    /\ found.tag = "None"
    /\ out' = Append(out, Line("[ERROR] User {} not found", <<user_id>>))
    /\ result' = None
    /\ pc' = "ret"
    /\ UNCHANGED <<env, objects, user_id, rows, found, data, response, notified, calls>>

\* get_user lines 172-174: None
get_user_absent ==
    /\ pc = "gu_168"
    /\ found.tag = "None"
    /\ result' = None
    /\ pc' = "ret"
    /\ UNCHANGED <<env, objects, user_id, rows, found, data, response, notified, calls, out>>

\* notify_user_created line 136
notify_user_created_log ==
    /\ pc = "nu_136"
    /\ out' = Append(out, Info("Sending notification for user {}", <<found.val.name>>))
    /\ pc' = "nu_137"
    /\ UNCHANGED <<env, objects, frame, calls>>

\* notify_user_created lines 137-140 with HTTPClient::post lines 63-71; the
\* printed line is held as its arguments (base_url, path, data), not as the
\* text {:?} gives the map.
notify_user_created_post ==
    /\ pc = "nu_137"
    /\ data' = notify_data(found.val)
    /\ out' = Append(out, Println("[HTTPClient] POST {} with {:?}",
                                  <<http_client.base_url, "/notifications", data'>>))
    /\ response' = HTTPClient_post("/notifications", data')
    /\ pc' = "nu_141"
    /\ UNCHANGED <<env, objects, user_id, rows, found, notified, result, calls>>

\* notify_user_created line 141, returning to get_user line 170
notify_user_created_return ==
    /\ pc = "nu_141"
    /\ notified' = notify_value(response)
    /\ pc' = "gu_171"
    /\ UNCHANGED <<env, objects, user_id, rows, found, data, response, result, calls, out>>

\* A get_user that returns the user only when the notification succeeded.
get_user_return_if_notified ==
    /\ pc = "gu_171"
    /\ result' = IF notified THEN found ELSE None
    /\ pc' = "ret"
    /\ UNCHANGED <<env, objects, user_id, rows, found, data, response, notified, calls, out>>

\* get_user line 171: the value of notify_user_created is dropped
get_user_return ==
    /\ pc = "gu_171"
    /\ result' = found
    /\ pc' = "ret"
    /\ UNCHANGED <<env, objects, user_id, rows, found, data, response, notified, calls, out>>

\* A main whose two branches are exchanged.
main_report_exchanged ==
    /\ pc = "ret"
    /\ driver = "main"
    /\ out' = Append(out,
                IF result.tag = "None"
                THEN Println("\nSuccessfully retrieved user: {} ({})", <<"", "">>)
                ELSE Println("\nUser not found", <<>>))
    /\ pc' = "done"
    /\ UNCHANGED <<env, objects, frame, calls>>

\* main lines 210-214 (the emoji that opens each of the two messages is
\* left out of the format strings)
main_report ==
    /\ pc = "ret"
    /\ driver = "main"
    /\ out' = Append(out,
                IF result.tag = "Some"
                THEN Println("\nSuccessfully retrieved user: {} ({})",
                             <<result.val.name, result.val.email>>)
                ELSE Println("\nUser not found", <<>>))
    /\ pc' = "done"
    /\ UNCHANGED <<env, objects, frame, calls>>

\* the harness takes the value and may call again
harness_next ==
    /\ pc = "ret"
    /\ driver = "harness"
    /\ pc' = IF calls < MaxCalls THEN "call" ELSE "done"
    /\ UNCHANGED <<env, objects, frame, calls, out>>

Next ==
    \/ MainPrintln
    \/ Database_new
    \/ HTTPClient_new
    \/ Logger_new
    \/ UserRepository_new
    \/ NotificationService_new
    \/ UserService_new
    \/ Call
    \/ get_user_log
    \/ find_by_id_log
    \/ find_by_id_query
    \/ find_by_id_return
    \/ find_by_id_panic
    \/ get_user_found
    \/ get_user_absent
    \/ notify_user_created_log
    \/ notify_user_created_post
    \/ notify_user_created_return
    \/ get_user_return
    \/ main_report
    \/ harness_next

Spec == Init /\ [][Next]_vars

\* The thread is never descheduled: a run goes on until main returns or panics.
FairSpec == Spec /\ WF_vars(Next)

----------------------------------------------------------------------------
(* Vocabulary of the properties. *)

\* The answers written in the source.
RefMocks == dbAnswer = MockRows /\ httpAnswer = MockResponse

Alice == [id |-> 1, name |-> "Alice", email |-> "alice@example.com"]

\* A decimal integer literal: an optional sign and at least one digit.
LiteralBody(s) == IF Head(s) \in {"+", "-"} THEN Tail(s) ELSE s

IsIntegerLiteral(s) ==
    /\ Len(s) > 0
    /\ Len(LiteralBody(s)) > 0
    /\ \A i \in 1..Len(LiteralBody(s)) : IsDigit(LiteralBody(s)[i])

RECURSIVE StripZeros(_)
StripZeros(s) == IF Len(s) > 1 /\ Head(s) = "0" THEN StripZeros(Tail(s)) ELSE s

\* a <= b for digit strings of equal length
DigitsLeq(a, b) ==
    \/ a = b
    \/ \E i \in 1..Len(a) :
          /\ \A j \in 1..(i - 1) : a[j] = b[j]
          /\ DigitValue(a[i]) < DigitValue(b[i])

\* The literal denotes a value of the User's id type (i32).
IsI32Literal(s) ==
    /\ IsIntegerLiteral(s)
    /\ LET m   == StripZeros(LiteralBody(s))
           lim == IF Head(s) = "-"
                  THEN <<"2", "1", "4", "7", "4", "8", "3", "6", "4", "8">>
                  ELSE <<"2", "1", "4", "7", "4", "8", "3", "6", "4", "7">>
       IN  Len(m) < 10 \/ (Len(m) = 10 /\ DigitsLeq(m, lim))

RECURSIVE SignedSum(_, _, _)
SignedSum(ds, sign, acc) ==
    IF ds = <<>> THEN acc
    ELSE SignedSum(Tail(ds), sign, acc * 10 + sign * DigitValue(Head(ds)))

\* The value of an i32 literal.
LiteralValue(s) ==
    SignedSum(StripZeros(LiteralBody(s)), IF Head(s) = "-" THEN -1 ELSE 1, 0)

WellFormedRow(r) ==
    /\ {"id", "name", "email"} \subseteq DOMAIN r
    /\ IsI32Literal(r.id)

FirstRowWellFormed == Len(dbAnswer) > 0 /\ WellFormedRow(dbAnswer[1])

FirstRowMalformed == Len(dbAnswer) > 0 /\ ~WellFormedRow(dbAnswer[1])

\* The output of the get_user call in progress or last finished: from its
\* "Getting user" line on.
GettingFmt   == "[INFO] Getting user {}"
FindingFmt   == "[INFO] Finding user {}"
ExecutingFmt == "[Database] Executing: {}"
PostFmt      == "[HTTPClient] POST {} with {:?}"
FoundFmt     == "\nSuccessfully retrieved user: {} ({})"
NotFoundFmt  == "\nUser not found"

CallStart ==
    CHOOSE i \in 1..Len(out) :
        /\ out[i].fmt = GettingFmt
        /\ \A j \in (i + 1)..Len(out) : out[j].fmt # GettingFmt

CallOut == SubSeq(out, CallStart, Len(out))

Fmts(lines) == [i \in DOMAIN lines |-> lines[i].fmt]

At(lines, fmt) == { i \in DOMAIN lines : lines[i].fmt = fmt }

InNotify == pc \in {"nu_136", "nu_137", "nu_141"}

AfterFind == {"gu_168", "nu_136", "nu_137", "nu_141", "gu_171", "ret", "done"}

Local(n) ==
    CASE n = "database"      -> database
      [] n = "http_client"   -> http_client
      [] n = "logger"        -> logger
      [] n = "repository"    -> repository
      [] n = "notifications" -> notifications
      [] n = "user_service"  -> user_service

Locals == {"database", "http_client", "logger", "repository", "notifications", "user_service"}

\* The references a constructed component holds (the leaves hold none).
Refs(n) ==
    IF n \in {"repository", "notifications", "user_service"} /\ Local(n) # Unset
    THEN { Local(n)[f] : f \in DOMAIN Local(n) }
    ELSE {}

RECURSIVE Reach(_, _)
Reach(n, k) ==
    IF k = 0 THEN {}
    ELSE Refs(n) \cup UNION { Reach(m, k - 1) : m \in Refs(n) }

----------------------------------------------------------------------------
(* Properties. *)

\* C1: whenever the first row of the store's answer is well formed (id an
\* i32 literal, name and email present), get_user does not panic and
\* returns Some(User) whose id is the value of the row's id text and whose
\* name and email are the row's, whatever user_id was requested.
C1_WellFormedRowIsReturned ==
    FirstRowWellFormed =>
        /\ pc # "panicked"
        /\ pc = "ret" =>
              result = Some([id    |-> LiteralValue(dbAnswer[1].id),
                             name  |-> dbAnswer[1].name,
                             email |-> dbAnswer[1].email])

\* C1 witness: a call returned a user whose id differs from the requested id
\* and whose id text is not in canonical form.
C1_Witness ==
    /\ pc = "ret"
    /\ FirstRowWellFormed
    /\ dbAnswer[1].id = <<"+", "5">>
    /\ user_id = 42
    /\ result.tag = "Some"

\* C2: when the store answers with no rows, find_by_id and get_user return
\* None and the call does not panic.
C2_NoRowsIsAbsence ==
    Len(dbAnswer) = 0 =>
        /\ pc # "panicked"
        /\ pc \in AfterFind => found = None
        /\ pc = "ret" => result = None

C2_Witness == pc = "ret" /\ Len(dbAnswer) = 0 /\ result = None /\ found = None

\* C3: a get_user call whose lookup is absent has printed exactly the
\* "Getting user", "Finding user" and "Executing" lines when it returns, so
\* no notification, no POST and no further log; notify_user_created is
\* entered only with a found user.
C3_AbsentReturnsAtOnce ==
    /\ (pc = "ret" /\ found = None) =>
          Fmts(CallOut) = <<GettingFmt, FindingFmt, ExecutingFmt>>
    /\ (pc \in AfterFind /\ found = None) => pc \in {"gu_168", "ret", "done"}
    /\ InNotify => found.tag = "Some"

C3_Witness == pc = "ret" /\ found = None /\ result = None /\ calls = 2 /\ user_id = 42

\* C4: whatever the HTTP response, get_user returns the user find_by_id
\* produced.
C4_NotificationNeverChangesResult ==
    (pc = "ret" /\ found.tag = "Some") => result = found

C4_Witness ==
    /\ pc = "ret"
    /\ found.tag = "Some"
    /\ result = found
    /\ "status" \notin DOMAIN httpAnswer
    /\ ~notified

\* C5: when the first row is malformed the call never gets past find_by_id:
\* no value, neither None nor a User, is returned; the call panics.
C5_MalformedRowFails ==
    FirstRowMalformed =>
        /\ pc \notin AfterFind
        /\ pc = "fb_112" => (ENABLED find_by_id_panic /\ ~ENABLED find_by_id_return)

C5_Witness == pc = "panicked" /\ FirstRowMalformed /\ "id" \in DOMAIN dbAnswer[1]

\* The value notify_user_created has returned, against the response.
C6_Returned ==
    pc = "gu_171" =>
        (notified <=> ("status" \in DOMAIN httpAnswer /\ httpAnswer["status"] = "success"))

\* C6: notify_user_created returns true exactly when the response has a
\* status field equal to "success", and from its last statement it always
\* returns to get_user.
C6_NotifyResult ==
    /\ []C6_Returned
    /\ [][InNotify => pc' \in {"nu_137", "nu_141", "gu_171"}]_vars

C6_Witness ==
    /\ pc = "gu_171"
    /\ "status" \in DOMAIN httpAnswer
    /\ httpAnswer["status"] # "success"
    /\ ~notified

\* C7: a constructed component's references all name constructed
\* components, get_user runs only with the UserService constructed, and no
\* component reaches itself through references.
C7_DependenciesFirst ==
    /\ \A n \in Locals : \A m \in Refs(n) : Local(m) # Unset
    /\ (repository # Unset) => (database # Unset /\ logger # Unset)
    /\ (notifications # Unset) => (http_client # Unset /\ logger # Unset)
    /\ (user_service # Unset) =>
          (repository # Unset /\ notifications # Unset /\ logger # Unset)
    /\ (calls > 0) => user_service # Unset
    /\ \A n \in Locals : n \notin Reach(n, Cardinality(Locals))

C7_Witness ==
    /\ pc = "new_user_service"
    /\ repository # Unset
    /\ notifications # Unset
    /\ user_service = Unset

\* C8: a get_user call that returns Some(user) has printed exactly one
\* "Executing" line and, after it, exactly one POST line, to
\* "/notifications", whose payload has user_id = the decimal string of
\* user.id and event = "user.created"; with the answers of the source,
\* get_user(1) returns Alice and the payload's user_id is "1".
C8_OnePostPerFoundUser ==
    (pc = "ret" /\ result.tag = "Some") =>
        /\ Cardinality(At(CallOut, ExecutingFmt)) = 1
        /\ Cardinality(At(CallOut, PostFmt)) = 1
        /\ \A q \in At(CallOut, ExecutingFmt) : \A p \in At(CallOut, PostFmt) :
              /\ q < p
              /\ CallOut[p].args[2] = "/notifications"
              /\ CallOut[p].args[3].user_id = I32ToString(result.val.id)
              /\ CallOut[p].args[3].event = "user.created"
              /\ (RefMocks /\ user_id = 1) =>
                    /\ result = Some(Alice)
                    /\ CallOut[p].args[3].user_id = <<"1">>

C8_Witness ==
    /\ pc = "ret"
    /\ driver = "main"
    /\ RefMocks
    /\ result = Some(Alice)
    /\ data = [user_id |-> <<"1">>, event |-> "user.created"]

\* What main has called and printed so far.
C9_Reported ==
    driver = "main" =>
        /\ calls <= 1
        /\ calls = 1 => (user_id = 1 /\ \A n \in Locals : Local(n) # Unset)
        /\ pc # "done" => At(out, FoundFmt) \cup At(out, NotFoundFmt) = {}
        /\ pc = "done" =>
              /\ calls = 1
              /\ Cardinality(At(out, FoundFmt) \cup At(out, NotFoundFmt)) = 1
              /\ At(out, FoundFmt) \cup At(out, NotFoundFmt) = {Len(out)}
              /\ (out[Len(out)].fmt = FoundFmt) <=> (result.tag = "Some")
              /\ (result.tag = "Some") =>
                    out[Len(out)].args = <<result.val.name, result.val.email>>
        /\ RefMocks => pc # "panicked"

\* C9: main calls get_user once, with 1, after the six constructions; when
\* it has finished it has printed exactly one of the two outcome lines, the
\* found line (with name and email) exactly when get_user returned Some;
\* with the answers of the source it never panics and does finish.
C9_OneCallOneOutcome ==
    /\ []C9_Reported
    /\ (driver = "main" /\ RefMocks) ~> (pc = "done")

C9_Witness ==
    /\ driver = "main"
    /\ RefMocks
    /\ pc = "done"
    /\ out[Len(out)] = Println(FoundFmt, <<"Alice", "alice@example.com">>)

\* The value a get_user call returns under the answers of the source.
C10_Returned == (RefMocks /\ pc = "ret") => result = Some(Alice)

\* C10: with the answers of the source every get_user call returns Alice,
\* whatever id was requested and whatever calls came before, and no step
\* after the construction changes a component.
C10_StatelessUseCase ==
    /\ []C10_Returned
    /\ [][(user_service # Unset) => objects' = objects]_vars

C10_Witness ==
    /\ RefMocks
    /\ pc = "ret"
    /\ calls = 2
    /\ user_id = 42
    /\ result = Some(Alice)

====
